---- MODULE Spec2Model ----
(***************************************************************************)
(* Model of the notification daemon: the D-Bus request handlers of         *)
(* dbus.rs (NotificationInterface), the state owner of iced.rs (State and  *)
(* its update function), the two channels between them and the signal      *)
(* emitter task.                                                           *)
(*                                                                         *)
(* An Option<T> of the source is a set with at most one element: {} is     *)
(* None and {v} is Some(v).  Times are milliseconds.                       *)
(*                                                                         *)
(* A panic of the state owner (the expect of a failed try_send) ends the   *)
(* process: alive becomes FALSE and no action is enabled any more.         *)
(*                                                                         *)
(* update can return Task::done(Message::RemoveWindow(id)) several times   *)
(* before the runtime calls remove_id; remove_window records that at least *)
(* one such task is pending, the later ones find the window gone.          *)
(***************************************************************************)
EXTENDS Integers, Sequences, FiniteSets, TLC

\* ---------------------------------------------------------------- bounds
\* The largest id; stands for u32::MAX in get_next_id.
IdMax == 2
\* Number of D-Bus method calls in one run.
MaxCalls == 2
\* Capacity of the handler -> state owner channel; stands for channel(100).
MaxOutput == 1
\* Capacity of the state owner -> emitter channel; stands for mpsc::channel(100).
MaxRelay == 1
\* Number of user gestures in one run.
MaxUi == 1
\* The largest urgency level a client sends; stands for u8::MAX.
UrgencyMax == 3
\* The longest action list of a Notify call.
MaxActions == 3
\* The longest body typed character by character.
MaxBody == 3
\* How many times a body is wrapped in a formatting tag.
MaxDepth == 2
\* Bound on the number of units handed to group.
MaxUnits == 4

\* ------------------------------------------------------- program constants
\* TimeDelta::minutes(1), in milliseconds.
DefaultExpireMs == 60000

\* ----------------------------------------------------------- input domains
Ids == 1..IdMax
\* replaces_id of a Notify call: 0 asks for a new id.
ReplaceIds == 0..IdMax
\* hints.urgency: Option<u8>; 3 is an out-of-range level.
UrgencyHints == {{}, {2}, {3}}
\* expire_timeout: i32.
Timeouts == {-1, 0, 1}
\* The instants at which Local::now() is read.
ClockInstants == {0, 1, 60001}
\* hints.urgency over the whole range of levels.
UrgencyLevels == {{}} \cup {{level} : level \in 0..UrgencyMax}
\* The strings of an action list.
ActionStrings == {"k", "l"}
\* The hint keys that carry an image or a path.
ImageKeys == {"image-data", "image_data", "icon_data"}
PathKeys == {"image-path", "image_path"}
\* ImageData values: one pixel, three bytes of data; with has_alpha the buffer is short.
Images == [width : {1}, height : {1}, has_alpha : BOOLEAN, data : {3}]
\* The path of an image-path hint.
Paths == {"/usr/a.png"}
\* app_icon of a Notify call.
AppIcons == {"", "firefox", "nosuch", "file:///usr/a.png"}
\* The files that exist and the icons that the theme holds.
ExistingFiles == {"/usr/a.png"}
ThemeIcons == {"firefox", "notifications"}
\* The characters of a typed body, and the formatting tags a body is wrapped in.
BodyChars == {"<", ">", "/", "b", "x"}
FormatTags == {"b", "i", "u"}
\* A tag name that starts with none of b, i, u.
OtherTags == {"x"}
\* The values of the attributes of image and hyperlink tags.
AttributeValues == {<<>>, <<"p">>, <<"t", " ">>}
\* The text before and after an image tag.
Texts == {<<>>, <<"x">>}
\* The key of an action button.
ActionKeys == {"default"}

VARIABLES
    next_id,        \* NotificationInterface.next_id
    used_ids,       \* NotificationInterface.used_ids
    iface,          \* "ready", "get_next_id" in its loop, "hung" once it loops for ever, "panicked"
    calls,          \* number of method calls made so far
    output,         \* channel of DbusMessage from the handlers to the state owner
    notifications,  \* State.notifications
    alerts,         \* State.alerts
    signaller,      \* State.signaller
    window_id,      \* State.window_id: "None" or "Some"
    remove_window,  \* a Message::RemoveWindow task is pending in the runtime
    alive,          \* the state owner has not panicked
    relay,          \* channel of DbusSignal from the state owner to the emitter task
    dbus_pc,        \* dbus(): "serving" before Initialized is sent, then "emitting"; "dead"
    bus,            \* signals emitted on the bus, in order
    ui,             \* pending message from the rendering surface (Option)
    gestures,       \* number of user gestures so far
    now,            \* Local::now()
    args,           \* the arguments of the function under examination
    ret             \* what it returned

vars == <<next_id, used_ids, iface, calls, output, notifications, alerts, signaller,
          window_id, remove_window, alive, relay, dbus_pc, bus, ui, gestures, now,
          args, ret>>

\* ------------------------------------------------------------ notification.rs
Low == "Low"
Normal == "Normal"
Critical == "Critical"

\* ------------------------------------------------------------------ markup.rs
\* A string is the sequence of its characters.  A parser returns Ok(rem, out), Err
\* (nom's Err::Error; no parser here returns Err::Failure) or, where the source can
\* panic, Panic.
Ok(rem, out) == [kind |-> "Ok", rem |-> rem, out |-> out]
Err == [kind |-> "Err"]
Panic == [kind |-> "Panic"]

\* input[n..]
Drop(input, n) == SubSeq(input, n + 1, Len(input))

\* input.find(pattern): the first position at which pattern occurs, 0 when none.
Find(pattern, input) ==
    LET hits == {i \in 1..(Len(input) - Len(pattern) + 1) :
                    SubSeq(input, i, i + Len(pattern) - 1) = pattern}
    IN  IF hits = {} THEN 0 ELSE CHOOSE i \in hits : \A j \in hits : i <= j

\* nom::bytes::tag
tag(pattern, input) ==
    IF Len(input) >= Len(pattern) /\ SubSeq(input, 1, Len(pattern)) = pattern
    THEN Ok(Drop(input, Len(pattern)), pattern)
    ELSE Err

\* nom::bytes::take_until
take_until(pattern, input) ==
    LET at == Find(pattern, input)
    IN  IF at = 0 THEN Err ELSE Ok(Drop(input, at - 1), SubSeq(input, 1, at - 1))

\* nom::bytes::take_until1
take_until1(pattern, input) ==
    LET taken == take_until(pattern, input)
    IN  IF taken.kind = "Ok" /\ taken.out = <<>> THEN Err ELSE taken

RECURSIVE multispace0(_)
\* nom::character::complete::multispace0: what is left after the leading whitespace.
multispace0(input) ==
    IF input # <<>> /\ Head(input) \in {" ", "\t", "\n", "\r"}
    THEN multispace0(Tail(input))
    ELSE input

\* One step of nom's alt: the other parser is tried on an Err.
Otherwise(result, other) == IF result.kind = "Err" THEN other ELSE result

\* parse_markup_tag_field
parse_markup_tag_field(field, input) ==
    LET \* the ? of the source: the rest runs on an Ok, any other result is returned
        Then(result, rest(_)) == IF result.kind = "Ok" THEN rest(result) ELSE result
    IN
    Then(tag(field, multispace0(input)), LAMBDA name :
    Then(tag(<<"=">>, multispace0(name.rem)), LAMBDA equals :
    Then(tag(<<"\"">>, multispace0(equals.rem)), LAMBDA open :
    Then(take_until1(<<"\"">>, open.rem), LAMBDA value :
    Then(tag(<<"\"">>, value.rem), LAMBDA close :
        Ok(multispace0(close.rem), value.out))))))

\* permutation((parse_markup_tag_field("src"), parse_markup_tag_field("alt"))): the
\* parsers are tried in turn on what the ones that succeeded have left.
permutation(input) ==
    LET \* the ? of the source: the rest runs on an Ok, any other result is returned
        Then(result, rest(_)) == IF result.kind = "Ok" THEN rest(result) ELSE result
    IN
    Otherwise(
        Then(parse_markup_tag_field(<<"s", "r", "c">>, input), LAMBDA src :
        Then(parse_markup_tag_field(<<"a", "l", "t">>, src.rem), LAMBDA alt :
            Ok(alt.rem, [src |-> src.out, alt |-> alt.out]))),
        Then(parse_markup_tag_field(<<"a", "l", "t">>, input), LAMBDA alt :
        Then(parse_markup_tag_field(<<"s", "r", "c">>, alt.rem), LAMBDA src :
            Ok(src.rem, [src |-> src.out, alt |-> alt.out]))))

\* parse_markup_image
parse_markup_image(input) ==
    LET \* the ? of the source: the rest runs on an Ok, any other result is returned
        Then(result, rest(_)) == IF result.kind = "Ok" THEN rest(result) ELSE result
    IN
    Then(tag(<<"<", "i", "m", "g">>, input), LAMBDA open :
    Then(permutation(open.rem), LAMBDA fields :
    Then(tag(<<"/", ">">>, fields.rem), LAMBDA close :
        Ok(close.rem, [tag |-> "Image", src |-> fields.out.src, alt |-> fields.out.alt]))))

RECURSIVE parse_markup(_)

\* parse_markup_hyperlink
parse_markup_hyperlink(input) ==
    LET \* the ? of the source: the rest runs on an Ok, any other result is returned
        Then(result, rest(_)) == IF result.kind = "Ok" THEN rest(result) ELSE result
    IN
    Then(tag(<<"<", "a">>, input), LAMBDA open :
    Then(parse_markup_tag_field(<<"h", "r", "e", "f">>, open.rem), LAMBDA href :
    Then(tag(<<">">>, href.rem), LAMBDA gt :
    Then(take_until(<<"<", "/", "a", ">">>, gt.rem), LAMBDA contents :
    Then(tag(<<"<", "/", "a", ">">>, contents.rem), LAMBDA close :
    Then(parse_markup(contents.out), LAMBDA children :
        Ok(close.rem,
           [tag |-> "Hyperlink", href |-> href.out, children |-> children.out])))))))

\* The match of parse_markup_tag on the first character of the tag name; unwrap
\* panics when there is none.
MarkupTagOf(tag_name, contents, children) ==
    IF tag_name = <<>> THEN Panic
    ELSE Ok(<<>>,
            CASE Head(tag_name) = "b" -> [tag |-> "Bold", children |-> children]
              [] Head(tag_name) = "u" -> [tag |-> "Underline", children |-> children]
              [] Head(tag_name) = "i" -> [tag |-> "Italic", children |-> children]
              [] OTHER -> [tag |-> "Text", text |-> contents])

\* parse_markup_tag
parse_markup_tag(input) ==
    LET \* the ? of the source: the rest runs on an Ok, any other result is returned
        Then(result, rest(_)) == IF result.kind = "Ok" THEN rest(result) ELSE result
    IN
    Then(tag(<<"<">>, input), LAMBDA lt :
    Then(take_until1(<<">">>, lt.rem), LAMBDA tag_name :
    Then(tag(<<">">>, tag_name.rem), LAMBDA gt :
    Then(take_until(<<"<", "/">> \o tag_name.out, gt.rem), LAMBDA contents :
    Then(tag(<<"<", "/">>, contents.rem), LAMBDA close_lt :
    Then(take_until(<<">">>, close_lt.rem), LAMBDA close_name :
    Then(tag(<<">">>, close_name.rem), LAMBDA close_gt :
    Then(parse_markup(contents.out), LAMBDA children :
    Then(MarkupTagOf(tag_name.out, contents.out, children.out), LAMBDA markup_tag :
        Ok(close_gt.rem, markup_tag.out))))))))))

\* parse_markup_text whose unwrap_or gives ("", "").
parse_markup_text_Lost(input) ==
    LET text == take_until(<<"<">>, input)
    IN  IF text.kind = "Ok"
        THEN Ok(text.rem, [tag |-> "Text", text |-> text.out])
        ELSE Ok(<<>>, [tag |-> "Text", text |-> <<>>])

\* parse_markup_text
parse_markup_text(input) ==
    LET text == take_until(<<"<">>, input)
    IN  IF text.kind = "Ok"
        THEN Ok(text.rem, [tag |-> "Text", text |-> text.out])
        ELSE Ok(<<>>, [tag |-> "Text", text |-> input])

\* alt((parse_markup_image, parse_markup_hyperlink, parse_markup_tag, parse_markup_text))
alt(input) ==
    Otherwise(parse_markup_image(input),
    Otherwise(parse_markup_hyperlink(input),
    Otherwise(parse_markup_tag(input),
              parse_markup_text(input))))

RECURSIVE many_till(_, _)
\* many_till(alt(..), eof): eof is tried first; an element that consumes nothing is an
\* error.
many_till(input, tags) ==
    LET \* the ? of the source: the rest runs on an Ok, any other result is returned
        Then(result, rest(_)) == IF result.kind = "Ok" THEN rest(result) ELSE result
    IN
    IF input = <<>> THEN Ok(<<>>, tags)
    ELSE Then(alt(input), LAMBDA element :
            IF Len(element.rem) = Len(input) THEN Err
            ELSE many_till(element.rem, Append(tags, element.out)))

\* parse_markup; the assert panics when input is left.
parse_markup(input) ==
    LET \* the ? of the source: the rest runs on an Ok, any other result is returned
        Then(result, rest(_)) == IF result.kind = "Ok" THEN rest(result) ELSE result
    IN
    Then(many_till(input, <<>>), LAMBDA parsed :
        IF parsed.rem # <<>> THEN Panic ELSE parsed)

\* RichTextSpanStyle with every flag false.
Unstyled == [bold |-> FALSE, italic |-> FALSE, underline |-> FALSE]

RECURSIVE flatten_traverser(_, _)
\* flatten_traverser
flatten_traverser(tree, style) ==
    IF tree = <<>> THEN <<>>
    ELSE LET node == Head(tree)
             units ==
                CASE node.tag = "Text" ->
                        <<[unit |-> "Span", style |-> style, text |-> node.text]>>
                  [] node.tag = "Bold" ->
                        flatten_traverser(node.children, [style EXCEPT !.bold = TRUE])
                  [] node.tag = "Italic" ->
                        flatten_traverser(node.children, [style EXCEPT !.italic = TRUE])
                  [] node.tag = "Underline" ->
                        flatten_traverser(node.children, [style EXCEPT !.underline = TRUE])
                  [] node.tag = "Hyperlink" -> flatten_traverser(node.children, style)
                  [] node.tag = "Image" ->
                        <<[unit |-> "Image", src |-> node.src, alt |-> node.alt]>>
         IN  units \o flatten_traverser(Tail(tree), style)

\* flatten
flatten(tree) == flatten_traverser(tree, Unstyled)

\* BodyElement::RichText(spans)
RichText(spans) == [block |-> "RichText", spans |-> spans]

\* The push of the open group without the test that it is not empty.
Flush_Always(grouped, spans) == Append(grouped, RichText(spans))

\* if !group.is_empty() { grouped.push(BodyElement::RichText(group)) }
Flush(grouped, spans) == IF spans # <<>> THEN Append(grouped, RichText(spans)) ELSE grouped

RECURSIVE group_loop(_, _, _)
\* The loop of group: grouped is the result so far, spans the open group.
group_loop(elements, grouped, spans) ==
    IF elements = <<>>
    THEN Flush(grouped, spans)
    ELSE IF Head(elements).unit = "Span"
         THEN group_loop(Tail(elements), grouped,
                         Append(spans, [style |-> Head(elements).style,
                                        text |-> Head(elements).text]))
         ELSE group_loop(Tail(elements),
                         Append(Flush(grouped, spans),
                                [block |-> "Image", src |-> Head(elements).src,
                                 alt |-> Head(elements).alt]),
                         <<>>)

\* group
group(elements) == group_loop(elements, <<>>, <<>>)

\* The match of markup that returns nothing when parsing fails.
Returned_Empty(text, parsed) ==
    IF parsed.kind = "Panic" THEN [panicked |-> TRUE, body |-> <<>>]
    ELSE IF parsed.kind = "Ok" THEN [panicked |-> FALSE, body |-> group(flatten(parsed.out))]
    ELSE [panicked |-> FALSE, body |-> <<>>]

\* The match of markup on what parse_markup returned.
Returned(text, parsed) ==
    IF parsed.kind = "Panic" THEN [panicked |-> TRUE, body |-> <<>>]
    ELSE IF parsed.kind = "Ok" THEN [panicked |-> FALSE, body |-> group(flatten(parsed.out))]
    ELSE [panicked |-> FALSE,
          body |-> <<RichText(<<[style |-> Unstyled, text |-> text]>>)>>]

\* markup: what it returns, or that it panicked.
markup(text) == Returned(text, parse_markup(text))

\* ------------------------------------------------------------------- dbus.rs
Expired == "Expired"
DismissedByUser == "DismissedByUser"
ClosedByCloseNotification == "ClosedByCloseNotification"
Undefined == "Undefined"

\* impl From<NotificationClosedReason> for u32
ReasonCode(reason) ==
    CASE reason = Expired -> 1
      [] reason = DismissedByUser -> 2
      [] reason = ClosedByCloseNotification -> 3
      [] reason = Undefined -> 4

\* DbusSignal::NotificationClosed(id, reason)
NotificationClosed(id, reason) == [signal |-> "NotificationClosed", id |-> id, reason |-> reason]

\* DbusSignal::ActionInvoked(id, key)
ActionInvoked(id, key) == [signal |-> "ActionInvoked", id |-> id, key |-> key]

\* next_id += 1 at the maximum, wrapping as the unsigned addition does.
NextCandidate_Overflows(n) == (n + 1) % (IdMax + 1)

\* The step of the probe loop of get_next_id.
NextCandidate(n) == IF n = IdMax THEN 1 ELSE n + 1

\* get_next_id without its while loop.
Probe_NoLoop(n, used) == n

RECURSIVE Probe(_, _)
\* The while loop of get_next_id, from candidate n; called only when an id is free.
Probe(n, used) == IF n \in used THEN Probe(NextCandidate(n), used) ELSE n

\* get_next_id terminates only if some id of 1..IdMax is unused.
CanAllocate(used) == Ids \ used # {}

\* UrgencyOf with an out-of-range level taken as the highest urgency.
UrgencyOf_Saturates(hint) ==
    IF hint = {} THEN Normal
    ELSE IF hint = {0} THEN Low
    ELSE IF hint = {1} THEN Normal
    ELSE Critical

\* The urgency match of notify.
UrgencyOf(hint) ==
    IF hint = {} THEN Normal
    ELSE IF hint = {0} THEN Low
    ELSE IF hint = {1} THEN Normal
    ELSE IF hint = {2} THEN Critical
    ELSE Normal

\* chunks_exact that keeps a trailing element as a pair with itself.
chunks_exact_Ragged(list) ==
    [i \in 1..((Len(list) + 1) \div 2) |->
        <<list[2 * i - 1], list[IF 2 * i <= Len(list) THEN 2 * i ELSE 2 * i - 1]>>]

RECURSIVE chunks_exact(_)
\* actions.chunks_exact(2).map(|pair| (pair[0].clone(), pair[1].clone())).collect()
chunks_exact(list) ==
    IF Len(list) < 2 THEN <<>>
    ELSE <<<<list[1], list[2]>>>> \o chunks_exact(SubSeq(list, 3, Len(list)))

\* The actions of the Notification built by notify.
ActionsOf(actions) ==
    LET pairs == chunks_exact(actions) IN IF pairs = <<>> THEN {} ELSE {pairs}

\* The value of a key of the hints dictionary of a call, as an Option.
Get(dict, key) == IF key \in DOMAIN dict THEN {dict[key]} ELSE {}

\* Hints as deserialized from the dictionary: rename_all = "kebab-case", and the
\* renames of image_data_deprecated, image_path_deprecated and icon_data.
Hints(dict) ==
    [image_data |-> Get(dict, "image-data"),
     image_data_deprecated |-> Get(dict, "image_data"),
     image_path |-> Get(dict, "image-path"),
     image_path_deprecated |-> Get(dict, "image_path"),
     icon_data |-> Get(dict, "icon_data")]

\* ------------------------------------------------------------- freedesktop.rs
\* RgbaImage::from_raw and RgbImage::from_raw: the buffer must hold the whole image.
from_raw(image_data) ==
    image_data.data >=
        image_data.width * image_data.height * (IF image_data.has_alpha THEN 4 ELSE 3)

\* tmp_image_from_data, with /tmp writable: the path of the file that holds the image.
tmp_image_from_data(image_data) ==
    IF from_raw(image_data) THEN {[kind |-> "tmp", image |-> image_data]} ELSE {}

\* icon_name_or_path.replace("file://", "")
StripScheme(name) == IF name = "file:///usr/a.png" THEN "/usr/a.png" ELSE name

\* find_icon_path
find_icon_path(name) ==
    IF StripScheme(name) \in ExistingFiles THEN {[kind |-> "file", path |-> StripScheme(name)]}
    ELSE IF name \in ThemeIcons THEN {[kind |-> "theme", name |-> name]}
    ELSE {}

\* ------------------------------------------------------------------- dbus.rs
\* NotificationInterface::new: default_icon
default_icon == CHOOSE icon \in find_icon_path("notifications") : TRUE

\* The icon chain with the path hint ahead of the image hint.
IconCandidates_PathFirst == <<"image-path", "image-data", "app_icon", "icon_data">>

\* The candidates of the icon chain of notify, in the order of its or_else calls.
IconCandidates == <<"image-data", "image-path", "app_icon", "icon_data">>

\* What one candidate of the icon chain yields.
Candidate(name, hints, app_icon) ==
    CASE name = "image-data" ->
            UNION {tmp_image_from_data(image_data) : image_data \in hints.image_data}
      [] name = "image-path" -> {[kind |-> "file", path |-> path] : path \in hints.image_path}
      [] name = "app_icon" -> find_icon_path(app_icon)
      [] name = "icon_data" ->
            UNION {tmp_image_from_data(image_data) : image_data \in hints.icon_data}

RECURSIVE or_else(_, _, _)
\* The icon chain of notify from the given candidates on: the icon, and the candidates
\* that were evaluated on the way.
or_else(candidates, hints, app_icon) ==
    IF candidates = <<>> THEN [icon |-> default_icon, consulted |-> <<>>]
    ELSE LET found == Candidate(Head(candidates), hints, app_icon)
         IN  IF found # {}
             THEN [icon |-> CHOOSE icon \in found : TRUE, consulted |-> <<Head(candidates)>>]
             ELSE LET rest == or_else(Tail(candidates), hints, app_icon)
                  IN  [icon |-> rest.icon, consulted |-> <<Head(candidates)>> \o rest.consulted]

\* The icon of the Notification built by notify.
IconOf(dict, app_icon) == or_else(IconCandidates, Hints(dict), app_icon)

\* ExpireTime without the Critical test.
ExpireTime_IgnoresUrgency(urgency, expire_timeout, time) ==
    IF expire_timeout = 0 THEN {}
    ELSE IF expire_timeout = -1 THEN {time + DefaultExpireMs}
    ELSE {time + expire_timeout}

\* ExpireTime without the -1 case: the sentinel is taken as a number of milliseconds.
ExpireTime_NoDefault(urgency, expire_timeout, time) ==
    IF urgency = Critical \/ expire_timeout = 0 THEN {}
    ELSE {time + expire_timeout}

\* The expire_time of notify.
ExpireTime(urgency, expire_timeout, time) ==
    IF urgency = Critical \/ expire_timeout = 0 THEN {}
    ELSE IF expire_timeout = -1 THEN {time + DefaultExpireMs}
    ELSE {time + expire_timeout}

\* The Notification built by notify (the fields the lifecycle depends on).
Notification(id, hint, expire_timeout, time) ==
    [id |-> id,
     time |-> time,
     expire_time |-> ExpireTime(UrgencyOf(hint), expire_timeout, time),
     urgency |-> UrgencyOf(hint)]

\* ------------------------------------------------------------------- iced.rs
\* The state owner's fields that update reads and writes, as one record.
Owner ==
    [notifications |-> notifications, alerts |-> alerts, signaller |-> signaller,
     window_id |-> window_id, remove_window |-> remove_window, alive |-> alive,
     relay |-> relay]

\* IsExpired with >= for >.
IsExpired_Inclusive(n, t) == \E expire_time \in n.expire_time : t >= expire_time

\* The filter of remove_expired.
IsExpired(n, t) == \E expire_time \in n.expire_time : t > expire_time

\* remove_notification that leaves the notification data in the map.
remove_notification_KeepsData(s, id) ==
    LET found == {i \in 1..Len(s.alerts) : s.alerts[i] = id}
        index == IF found = {} THEN 0 ELSE CHOOSE i \in found : \A j \in found : i <= j
    IN  [s EXCEPT
          !.alerts = IF index = 0 THEN @
                     ELSE SubSeq(@, 1, index - 1) \o SubSeq(@, index + 1, Len(@))]

\* State::remove_notification
remove_notification(s, id) ==
    LET found == {i \in 1..Len(s.alerts) : s.alerts[i] = id}
        index == IF found = {} THEN 0 ELSE CHOOSE i \in found : \A j \in found : i <= j
    IN  [s EXCEPT
          !.alerts = IF index = 0 THEN @
                     ELSE SubSeq(@, 1, index - 1) \o SubSeq(@, index + 1, Len(@)),
          !.notifications = [i \in DOMAIN @ \ {id} |-> @[i]]]

\* NotificationSignaller::close_notification and action_invoked:
\* try_send(...).expect(...).  The send fails when the channel is full and when the
\* emitter task, which owns the receiver, has ended.
try_send(s, signal) ==
    IF dbus_pc # "dead" /\ Len(s.relay) < MaxRelay
    THEN [s EXCEPT !.relay = Append(@, signal)]
    ELSE [s EXCEPT !.alive = FALSE]

\* signal_closed that only warns.
signal_closed_Silent(s, id, reason) == s

\* The signal-or-warn of update and remove_expired.
signal_closed(s, id, reason) ==
    IF s.signaller = "Initialized" THEN try_send(s, NotificationClosed(id, reason)) ELSE s

\* The ids collected by remove_expired, in the order of alerts.
ExpiredIds(s, t) ==
    SelectSeq(s.alerts,
              LAMBDA id : id \in DOMAIN s.notifications /\ IsExpired(s.notifications[id], t))

RECURSIVE ForEachExpired(_, _)
\* The for_each of remove_expired; a panic ends it.
ForEachExpired(s, expired) ==
    IF expired = <<>> THEN s
    ELSE LET signalled == signal_closed(s, Head(expired), Expired)
         IN  IF ~signalled.alive THEN signalled
             ELSE ForEachExpired(remove_notification(signalled, Head(expired)), Tail(expired))

\* State::remove_expired
remove_expired(s, t) == ForEachExpired(s, ExpiredIds(s, t))

\* The match of update.
Process(s, message) ==
    CASE message.type = "Tick" -> s
      [] message.type = "Initialized" -> [s EXCEPT !.signaller = "Initialized"]
      [] message.type = "Notify" ->
            [s EXCEPT !.alerts = Append(@, message.notification.id),
                      !.notifications =
                          [i \in DOMAIN @ \cup {message.notification.id} |->
                              IF i = message.notification.id THEN message.notification ELSE @[i]],
                      !.window_id = "Some"]
      [] message.type = "CloseNotification" ->
            signal_closed(remove_notification(s, message.id), message.id,
                          ClosedByCloseNotification)
      [] message.type = "UserDismissed" ->
            signal_closed(remove_notification(s, message.id), message.id, DismissedByUser)
      [] message.type = "ActionInvoked" ->
            IF s.signaller = "Initialized"
            THEN try_send(s, ActionInvoked(message.id, message.key))
            ELSE s

\* State::update
update(s, message, t) ==
    LET swept == remove_expired(s, t)
    IN  IF ~swept.alive THEN swept
        ELSE IF swept.alerts = <<>> /\ swept.window_id = "Some"
             THEN [swept EXCEPT !.remove_window = TRUE]
             ELSE Process(swept, message)

\* The state owner takes the result of update.
Become(s) ==
    /\ notifications' = s.notifications
    /\ alerts' = s.alerts
    /\ signaller' = s.signaller
    /\ window_id' = s.window_id
    /\ remove_window' = s.remove_window
    /\ alive' = s.alive
    /\ relay' = s.relay

\* NotificationInterface::new, State::default and the start of dbus().
Constructed ==
    /\ next_id = 1
    /\ used_ids = {}
    /\ iface = "ready"
    /\ calls = 0
    /\ output = <<>>
    /\ notifications = << >>
    /\ alerts = <<>>
    /\ signaller = "Unitialized"
    /\ window_id = "None"
    /\ remove_window = FALSE
    /\ alive = TRUE
    /\ relay = <<>>
    /\ dbus_pc = "serving"
    /\ bus = <<>>
    /\ ui = {}
    /\ gestures = 0
    /\ now = 0

Init ==
    /\ Constructed
    /\ args = <<>>
    /\ ret = {}

\* The newest element of a channel.
Last(q) == q[Len(q)]

\* ---------------------------------------------------------------- handlers
CanCall == alive /\ iface = "ready" /\ calls < MaxCalls /\ Len(output) < MaxOutput

\* NotificationInterface::notify.  The message carries the call's replaces_id as a
\* history field: update never reads it, the statements about calls do.  args and ret
\* are left to the specification: the ones that examine a call record it there.
notify(replaces_id, hint, expire_timeout) ==
    /\ CanCall
    /\ calls' = calls + 1
    /\ UNCHANGED <<notifications, alerts, signaller, window_id, remove_window, alive, relay,
                   dbus_pc, bus, ui, gestures, now>>
    /\ IF replaces_id = 0 /\ ~CanAllocate(used_ids)
       THEN /\ iface' = "hung"
            /\ UNCHANGED <<next_id, used_ids, output>>
       ELSE LET id == IF replaces_id = 0 THEN Probe(next_id, used_ids) ELSE replaces_id
            IN  /\ next_id' = IF replaces_id = 0 THEN id ELSE next_id
                /\ used_ids' = IF replaces_id = 0 THEN used_ids \cup {id} ELSE used_ids
                /\ output' = Append(output,
                                    [type |-> "Notify",
                                     replaces_id |-> replaces_id,
                                     notification |-> Notification(id, hint, expire_timeout, now)])
                /\ UNCHANGED iface

\* NotificationInterface::close_notification
close_notification(id) ==
    /\ CanCall
    /\ calls' = calls + 1
    /\ output' = Append(output, [type |-> "CloseNotification", id |-> id])
    /\ bus' = Append(bus, [signal |-> "NotificationClosed", id |-> id, reason |-> 3])
    /\ UNCHANGED <<next_id, used_ids, iface, notifications, alerts, signaller, window_id,
                   remove_window, alive, relay, dbus_pc, ui, gestures, now, args, ret>>

\* dbus(): output.send(DbusMessage::Initialized(..)), then the emitter task is spawned.
SendInitialized ==
    /\ alive
    /\ dbus_pc = "serving"
    /\ Len(output) < MaxOutput
    /\ output' = Append(output, [type |-> "Initialized"])
    /\ dbus_pc' = "emitting"
    /\ UNCHANGED <<next_id, used_ids, iface, calls, notifications, alerts, signaller,
                   window_id, remove_window, alive, relay, bus, ui, gestures, now, args, ret>>

\* The signal that the emitter task puts on the bus for a DbusSignal.
Emitted(signal) ==
    IF signal.signal = "NotificationClosed"
    THEN [signal |-> signal.signal, id |-> signal.id, reason |-> ReasonCode(signal.reason)]
    ELSE signal

\* receiver.next() that leaves the message in the channel.
receiver_next_Peeks(receiver) == [message |-> Head(receiver), receiver |-> receiver]

\* receiver.next() on a channel that holds a message: the oldest message, and the
\* channel without it.
receiver_next(receiver) == [message |-> Head(receiver), receiver |-> Tail(receiver)]

\* One turn of the emitter task's loop.
Emit ==
    /\ alive
    /\ dbus_pc = "emitting"
    /\ relay # <<>>
    /\ bus' = Append(bus, Emitted(receiver_next(relay).message))
    /\ relay' = receiver_next(relay).receiver
    /\ UNCHANGED <<next_id, used_ids, iface, calls, output, notifications, alerts, signaller,
                   window_id, remove_window, alive, dbus_pc, ui, gestures, now, args, ret>>

\* One turn of the emitter task's loop in which the transport refuses the signal: the
\* expect panics the task, the receiver is dropped with what it still holds, and the
\* expect on the task's JoinHandle ends dbus().
EmitFails ==
    /\ alive
    /\ dbus_pc = "emitting"
    /\ relay # <<>>
    /\ relay' = <<>>
    /\ dbus_pc' = "dead"
    /\ UNCHANGED <<next_id, used_ids, iface, calls, output, notifications, alerts, signaller,
                   window_id, remove_window, alive, bus, ui, gestures, now, args, ret>>

\* NotificationInterface::close_notification when the transport refuses the handler's
\* own signal: the message is sent, then the expect panics the handler and the call
\* gets no reply.
close_notification_panics(id) ==
    /\ CanCall
    /\ calls' = calls + 1
    /\ output' = Append(output, [type |-> "CloseNotification", id |-> id])
    /\ iface' = "panicked"
    /\ UNCHANGED <<next_id, used_ids, notifications, alerts, signaller, window_id,
                   remove_window, alive, relay, dbus_pc, bus, ui, gestures, now, args, ret>>

\* ------------------------------------------------------------- state owner
\* update(Message::Dbus(message)) for the next message of the dbus subscription.
UpdateDbus ==
    /\ alive
    /\ output # <<>>
    /\ UNCHANGED <<next_id, used_ids, iface, calls, dbus_pc, bus, ui, gestures, now,
                   args, ret>>
    /\ output' = Tail(output)
    /\ Become(update(Owner, Head(output), now))

\* update(Message::Tick)
UpdateTick ==
    /\ alive
    /\ UNCHANGED <<next_id, used_ids, iface, calls, output, dbus_pc, bus, ui, gestures, now,
                   args, ret>>
    /\ Become(update(Owner, [type |-> "Tick"], now))

\* on_right_release of a notification that view shows.
RightRelease(id) ==
    /\ alive
    /\ ui = {}
    /\ gestures < MaxUi
    /\ window_id = "Some"
    /\ id \in DOMAIN notifications
    /\ \E i \in 1..Len(alerts) : alerts[i] = id
    /\ ui' = {[type |-> "UserDismissed", id |-> id]}
    /\ gestures' = gestures + 1
    /\ UNCHANGED <<next_id, used_ids, iface, calls, output, notifications, alerts, signaller,
                   window_id, remove_window, alive, relay, dbus_pc, bus, now, args, ret>>

\* on_press of an action button of a notification that view shows.
Press(id, key) ==
    /\ alive
    /\ ui = {}
    /\ gestures < MaxUi
    /\ window_id = "Some"
    /\ id \in DOMAIN notifications
    /\ \E i \in 1..Len(alerts) : alerts[i] = id
    /\ ui' = {[type |-> "ActionInvoked", id |-> id, key |-> key]}
    /\ gestures' = gestures + 1
    /\ UNCHANGED <<next_id, used_ids, iface, calls, output, notifications, alerts, signaller,
                   window_id, remove_window, alive, relay, dbus_pc, bus, now, args, ret>>

\* update(Message::UserDismissed(id)) and update(Message::ActionInvoked(id, key))
UpdateUi ==
    /\ alive
    /\ ui # {}
    /\ UNCHANGED <<next_id, used_ids, iface, calls, output, dbus_pc, bus, gestures, now,
                   args, ret>>
    /\ ui' = {}
    /\ \E message \in ui : Become(update(Owner, message, now))

\* The runtime performs Message::RemoveWindow and calls remove_id.
RemoveWindow ==
    /\ alive
    /\ remove_window
    /\ remove_window' = FALSE
    /\ window_id' = "None"
    /\ UNCHANGED <<next_id, used_ids, iface, calls, output, notifications, alerts, signaller,
                   alive, relay, dbus_pc, bus, ui, gestures, now, args, ret>>

\* Time passes.
AdvanceClock ==
    /\ alive
    /\ \E t \in ClockInstants : t > now /\ now' = t
    /\ UNCHANGED <<next_id, used_ids, iface, calls, output, notifications, alerts, signaller,
                   window_id, remove_window, alive, relay, dbus_pc, bus, ui, gestures,
                   args, ret>>

Next ==
    \/ \E replaces_id \in ReplaceIds, hint \in UrgencyHints, expire_timeout \in Timeouts :
          notify(replaces_id, hint, expire_timeout) /\ UNCHANGED <<args, ret>>
    \/ \E id \in Ids : close_notification(id)
    \/ SendInitialized
    \/ Emit
    \/ UpdateDbus
    \/ UpdateTick
    \/ \E id \in Ids : RightRelease(id)
    \/ UpdateUi
    \/ RemoveWindow
    \/ AdvanceClock

Spec == Init /\ [][Next]_vars

\* The daemon with action buttons and a transport that can refuse a signal, for
\* notifications of Normal urgency that expire after a millisecond.
SignalNext ==
    \/ \E replaces_id \in ReplaceIds : notify(replaces_id, {}, 1) /\ UNCHANGED <<args, ret>>
    \/ \E id \in Ids : close_notification(id)
    \/ \E id \in Ids : close_notification_panics(id)
    \/ SendInitialized
    \/ Emit
    \/ EmitFails
    \/ UpdateDbus
    \/ UpdateTick
    \/ \E id \in Ids : RightRelease(id)
    \/ \E id \in Ids, key \in ActionKeys : Press(id, key)
    \/ UpdateUi
    \/ RemoveWindow
    \/ AdvanceClock

SignalSpec == Init /\ [][SignalNext]_vars

\* A Notify call that is examined: args holds its arguments, ret the id it returned
\* (nothing when the call did not return).
Call(replaces_id, hint, expire_timeout) ==
    /\ notify(replaces_id, hint, expire_timeout)
    /\ args' = [replaces_id |-> replaces_id, urgency |-> hint,
                expire_timeout |-> expire_timeout]
    /\ ret' = IF iface' = "ready" THEN {Last(output').notification.id} ELSE {}

\* Notify calls with every urgency level, and the state owner receiving them.
UrgencyNext ==
    \/ \E replaces_id \in ReplaceIds, hint \in UrgencyLevels : Call(replaces_id, hint, -1)
    \/ UpdateDbus

UrgencySpec == Init /\ [][UrgencyNext]_vars

\* expire_timeout over the range of i32: the lowest value, the sentinels -1 and 0 with
\* their neighbours, and a minute.
SignedTimeouts == {-2147483647 - 1, -2, -1, 0, 1, DefaultExpireMs}

\* The state before notify computes the expire_time for a timeout, an urgency hint and
\* a reading of the clock.
TimeoutInit ==
    /\ Constructed
    /\ \E expire_timeout \in SignedTimeouts, hint \in UrgencyLevels, time \in ClockInstants :
          args = [expire_timeout |-> expire_timeout, urgency |-> hint, time |-> time]
    /\ ret = {}

\* notify builds the notification: time is Local::now(), expire_time follows from it.
Expire ==
    /\ ret = {}
    /\ ret' = {Notification(1, args.urgency, args.expire_timeout, args.time)}
    /\ UNCHANGED <<next_id, used_ids, iface, calls, output, notifications, alerts, signaller,
                   window_id, remove_window, alive, relay, dbus_pc, bus, ui, gestures, now,
                   args>>

TimeoutNext == Expire

TimeoutSpec == TimeoutInit /\ [][TimeoutNext]_vars

\* The condition of the while loop of get_next_id, never true.
InUse_Never(n, used) == FALSE

\* The condition of the while loop of get_next_id: used_ids.contains(&next_id).
InUse(n, used) == n \in used

\* A Notify call with replaces_id = 0 reaches get_next_id.
get_next_id_called(hint, expire_timeout) ==
    /\ alive
    /\ iface = "ready"
    /\ iface' = "get_next_id"
    /\ args' = [replaces_id |-> 0, urgency |-> hint, expire_timeout |-> expire_timeout]
    /\ ret' = {}
    /\ UNCHANGED <<next_id, used_ids, calls, output, notifications, alerts, signaller,
                   window_id, remove_window, alive, relay, dbus_pc, bus, ui, gestures, now>>

\* One iteration of the while loop of get_next_id.
get_next_id_loop ==
    /\ alive
    /\ iface = "get_next_id"
    /\ InUse(next_id, used_ids)
    /\ next_id' = NextCandidate(next_id)
    /\ UNCHANGED <<used_ids, iface, calls, output, notifications, alerts, signaller,
                   window_id, remove_window, alive, relay, dbus_pc, bus, ui, gestures, now,
                   args, ret>>

\* The while loop ends: get_next_id inserts next_id and returns it, and notify sends
\* the notification with that id and returns it.
get_next_id_returns ==
    /\ alive
    /\ iface = "get_next_id"
    /\ ~InUse(next_id, used_ids)
    /\ Len(output) < MaxOutput
    /\ used_ids' = used_ids \cup {next_id}
    /\ output' = Append(output,
                        [type |-> "Notify",
                         replaces_id |-> 0,
                         notification |-> Notification(next_id, args.urgency,
                                                       args.expire_timeout, now)])
    /\ iface' = "ready"
    /\ ret' = {next_id}
    /\ UNCHANGED <<next_id, calls, notifications, alerts, signaller, window_id,
                   remove_window, alive, relay, dbus_pc, bus, ui, gestures, now, args>>

\* Notify calls that allocate an id, iteration by iteration of get_next_id, the state
\* owner receiving them, and time.
RegistryNext ==
    \/ \E hint \in UrgencyHints, expire_timeout \in Timeouts :
          get_next_id_called(hint, expire_timeout)
    \/ get_next_id_loop
    \/ get_next_id_returns
    \/ UpdateDbus
    \/ UpdateTick
    \/ AdvanceClock

\* The fresh registry, before any call.
RegistryInit ==
    /\ Constructed
    /\ args = [replaces_id |-> 0]
    /\ ret = {}

RegistrySpec == RegistryInit /\ [][RegistryNext]_vars

\* The same with the scheduling of the program: the handler runs its loop on until it
\* returns, and the state owner's event loop takes the messages sent to it.
RegistryFairSpec ==
    /\ RegistrySpec
    /\ WF_vars(get_next_id_loop)
    /\ WF_vars(get_next_id_returns)
    /\ WF_vars(UpdateDbus)

\* The action lists of at most MaxActions strings.
ActionLists == UNION {[1..n -> ActionStrings] : n \in 0..MaxActions}

\* The hints dictionaries: any of the image keys with an image, any of the path keys
\* with a path.
HintDicts ==
    UNION {{[key \in image_keys \cup path_keys |->
                IF key \in image_keys THEN images[key] ELSE paths[key]] :
              images \in [image_keys -> Images], paths \in [path_keys -> Paths]} :
           image_keys \in SUBSET ImageKeys, path_keys \in SUBSET PathKeys}

\* The state before a call whose actions, hints and app_icon are examined.
FieldsInit ==
    /\ Constructed
    /\ \E actions \in ActionLists, dict \in HintDicts, app_icon \in AppIcons :
          args = [actions |-> actions, hints |-> dict, app_icon |-> app_icon]
    /\ ret = {}

\* notify computes the icon and the actions of its Notification.
Fields ==
    /\ ret = {}
    /\ ret' = {[actions |-> ActionsOf(args.actions),
                icon |-> IconOf(args.hints, args.app_icon).icon,
                consulted |-> IconOf(args.hints, args.app_icon).consulted]}
    /\ UNCHANGED <<next_id, used_ids, iface, calls, output, notifications, alerts, signaller,
                   window_id, remove_window, alive, relay, dbus_pc, bus, ui, gestures, now,
                   args>>

FieldsNext == Fields

FieldsSpec == FieldsInit /\ [][FieldsNext]_vars

\* The bodies of at most MaxBody characters.
Bodies == UNION {[1..n -> BodyChars] : n \in 0..MaxBody}

\* The state before markup is applied to a body.
MarkupInit ==
    /\ Constructed
    /\ \E body \in Bodies : args = [body |-> body, depth |-> 0]
    /\ ret = {}

\* The client encloses the body in a tag.
Wrap(name) ==
    /\ ret = {}
    /\ args.depth < MaxDepth
    /\ args' = [body |-> <<"<", name, ">">> \o args.body \o <<"<", "/", name, ">">>,
                depth |-> args.depth + 1]
    /\ UNCHANGED <<next_id, used_ids, iface, calls, output, notifications, alerts, signaller,
                   window_id, remove_window, alive, relay, dbus_pc, bus, ui, gestures, now,
                   ret>>

\* The body field notify builds from the body argument: None or Some(markup(body)).
BodyField(body) == IF body = <<>> THEN {} ELSE {markup(body).body}

\* notify applies markup to the body: what markup returns on it, and the body field.
Markup ==
    /\ ret = {}
    /\ ret' = {[panicked |-> markup(args.body).panicked,
                body |-> markup(args.body).body,
                stored |-> BodyField(args.body)]}
    /\ UNCHANGED <<next_id, used_ids, iface, calls, output, notifications, alerts, signaller,
                   window_id, remove_window, alive, relay, dbus_pc, bus, ui, gestures, now,
                   args>>

\* The client continues the body with text after a closing tag.
Follow ==
    /\ ret = {}
    /\ args.body # <<>>
    /\ Last(args.body) = ">"
    /\ args' = [args EXCEPT !.body = Append(@, "x")]
    /\ UNCHANGED <<next_id, used_ids, iface, calls, output, notifications, alerts, signaller,
                   window_id, remove_window, alive, relay, dbus_pc, bus, ui, gestures, now,
                   ret>>

MarkupNext ==
    \/ \E name \in FormatTags \cup OtherTags : Wrap(name)
    \/ Follow
    \/ Markup

MarkupSpec == MarkupInit /\ [][MarkupNext]_vars

\* The text and image units that flatten hands to group.
Units ==
    {[unit |-> "Span", style |-> Unstyled, text |-> <<"x">>],
     [unit |-> "Span", style |-> [Unstyled EXCEPT !.bold = TRUE], text |-> <<>>],
     [unit |-> "Image", src |-> <<"p">>, alt |-> <<"t">>]}

\* The state before group is applied to a sequence of at most MaxUnits units.
GroupInit ==
    /\ Constructed
    /\ \E elements \in UNION {[1..n -> Units] : n \in 0..MaxUnits} :
          args = [elements |-> elements]
    /\ ret = {}

\* group is applied to the sequence.
Group ==
    /\ ret = {}
    /\ ret' = {[grouped |-> group(args.elements)]}
    /\ UNCHANGED <<next_id, used_ids, iface, calls, output, notifications, alerts, signaller,
                   window_id, remove_window, alive, relay, dbus_pc, bus, ui, gestures, now,
                   args>>

GroupNext == Group

GroupSpec == GroupInit /\ [][GroupNext]_vars

\* name="value"
Attribute(name, value) == name \o <<"=", "\"">> \o value \o <<"\"">>

\* <img first second/>
ImageTag(first, second) ==
    <<"<", "i", "m", "g", " ">> \o first \o <<" ">> \o second \o <<"/", ">">>

\* The body before \o <img src="src" alt="alt_text"/> \o after, with the attribute named
\* by order written first.
ImageBody(before, src, alt_text, order, after) ==
    LET src_attribute == Attribute(<<"s", "r", "c">>, src)
        alt_attribute == Attribute(<<"a", "l", "t">>, alt_text)
    IN  before
           \o (IF order = "src" THEN ImageTag(src_attribute, alt_attribute)
                ELSE ImageTag(alt_attribute, src_attribute))
           \o after

\* The state before markup is applied to a body with an image tag.
ImageInit ==
    /\ Constructed
    /\ \E before \in Texts, src \in AttributeValues, alt_text \in AttributeValues,
          order \in {"src", "alt"}, after \in Texts :
          args = [before |-> before, src |-> src, alt |-> alt_text, order |-> order,
                  after |-> after, body |-> ImageBody(before, src, alt_text, order, after)]
    /\ ret = {}

ImageNext == Markup

ImageSpec == ImageInit /\ [][ImageNext]_vars

\* <a href="href">inner</a>
HyperlinkTag(href, inner) ==
    <<"<", "a", " ">> \o Attribute(<<"h", "r", "e", "f">>, href) \o <<">">> \o inner
        \o <<"<", "/", "a", ">">>

\* The contents in a tag of the name, or alone when there is no name.
Enclose(name, contents) ==
    IF name = "" THEN contents
    ELSE <<"<", name, ">">> \o contents \o <<"<", "/", name, ">">>

\* What the hyperlinks of the bodies enclose.
Inners ==
    {<<>>, <<"x">>, <<"<">>,
     Enclose("i", <<"x">>), <<"x">> \o Enclose("i", <<"x">>), Enclose("i", <<"x">>) \o <<"x">>,
     ImageBody(<<>>, <<"p">>, <<"t">>, "src", <<>>)}

\* The state before markup is applied to a body with a hyperlink, alone or in a
\* formatting tag.
HyperlinkInit ==
    /\ Constructed
    /\ \E href \in AttributeValues, inner \in Inners, name \in {"", "b", "u"} :
          args = [href |-> href, inner |-> inner, name |-> name,
                  body |-> Enclose(name, HyperlinkTag(href, inner))]
    /\ ret = {}

HyperlinkNext == Markup

HyperlinkSpec == HyperlinkInit /\ [][HyperlinkNext]_vars

\* ------------------------------------------------------------------- main.rs
\* The legacy server keeps next_id, notifications and alerts in one struct
\* Notifications; the record s holds the two fields add and remove write.

\* add_notification with the test for the id in alerts left out.
Notifications_add_notification_Pushes(s, notification) ==
    [s EXCEPT
      !.alerts = Append(@, notification.id),
      !.notifications = [i \in DOMAIN @ \cup {notification.id} |->
                            IF i = notification.id THEN notification ELSE @[i]]]

\* Notifications::add_notification
Notifications_add_notification(s, notification) ==
    [s EXCEPT
      !.alerts = IF \A i \in DOMAIN @ : @[i] # notification.id
                 THEN Append(@, notification.id) ELSE @,
      !.notifications = [i \in DOMAIN @ \cup {notification.id} |->
                            IF i = notification.id THEN notification ELSE @[i]]]

\* Notifications::remove_notification
Notifications_remove_notification(s, id) ==
    LET found == {i \in 1..Len(s.alerts) : s.alerts[i] = id}
        index == IF found = {} THEN 0 ELSE CHOOSE i \in found : \A j \in found : i <= j
    IN  [s EXCEPT
          !.alerts = IF index = 0 THEN @
                     ELSE SubSeq(@, 1, index - 1) \o SubSeq(@, index + 1, Len(@)),
          !.notifications = [i \in DOMAIN @ \ {id} |-> @[i]]]

\* Notifications::new: no notifications, no alerts.
LegacyInit ==
    /\ Constructed
    /\ args = [call |-> "new", id |-> 0]
    /\ ret = {}

\* A call of add_notification with a notification of the given id.
add_notification_called(id, hint, expire_timeout) ==
    LET s == Notifications_add_notification(
                 [notifications |-> notifications, alerts |-> alerts],
                 Notification(id, hint, expire_timeout, now))
    IN  /\ notifications' = s.notifications
        /\ alerts' = s.alerts
        /\ args' = [call |-> "add_notification", id |-> id]
        /\ UNCHANGED <<next_id, used_ids, iface, calls, output, signaller, window_id,
                       remove_window, alive, relay, dbus_pc, bus, ui, gestures, now, ret>>

\* A call of remove_notification.
remove_notification_called(id) ==
    LET s == Notifications_remove_notification(
                 [notifications |-> notifications, alerts |-> alerts], id)
    IN  /\ notifications' = s.notifications
        /\ alerts' = s.alerts
        /\ args' = [call |-> "remove_notification", id |-> id]
        /\ UNCHANGED <<next_id, used_ids, iface, calls, output, signaller, window_id,
                       remove_window, alive, relay, dbus_pc, bus, ui, gestures, now, ret>>

LegacyNext ==
    \/ \E id \in Ids, hint \in UrgencyHints, expire_timeout \in Timeouts :
          add_notification_called(id, hint, expire_timeout)
    \/ \E id \in Ids : remove_notification_called(id)
    \/ AdvanceClock

LegacySpec == LegacyInit /\ [][LegacyNext]_vars

\* ------------------------------------------------------------------ claims

\* The ids that occur in alerts.
AlertIds == {alerts[i] : i \in 1..Len(alerts)}

\* The notifications whose expire_time is set and earlier than t.
Due(t) ==
    {id \in DOMAIN notifications : \E e \in notifications[id].expire_time : e < t}

\* alerts without the ids that are due at t.
AlertsAfterSweep(t) == SelectSeq(alerts, LAMBDA id : id \notin Due(t))

\* What an update step appended to the relay.
Relayed == SubSeq(relay', Len(relay) + 1, Len(relay'))

\* A Notify call returned: its message is the last of the channel.
Notified ==
    /\ calls' # calls
    /\ Len(output') = Len(output) + 1
    /\ Last(output').type = "Notify"

\* An update step of the state owner that ran to its end.
UpdateStep == (UpdateDbus \/ UpdateTick \/ UpdateUi) /\ alive'

\* The update step that receives a message of the given type from the handlers.
Receives(type) == UpdateDbus /\ alive' /\ Head(output).type = type

\* C1: a Notify call with replaces_id = 0 returns an id that is not zero and is not the
\* id of a notification that is live in the store when the call returns.
C1_FreshIdNotLive ==
    [][Notified =>
        \A hint \in UrgencyHints, expire_timeout \in Timeouts :
          notify(0, hint, expire_timeout)
              => /\ Last(output').notification.id # 0
                 /\ Last(output').notification.id \notin DOMAIN notifications]_vars

\* C2: the update step that receives the Notify message of a call with replaces_id = 0
\* stores the record under its id and grows alerts by exactly one entry (counted after
\* the sweep that the same update step runs first).
C2_NotifyIsStored ==
    [][(Receives("Notify") /\ Head(output).replaces_id = 0)
          => LET n == Head(output).notification
             IN  /\ n.id \in DOMAIN notifications'
                 /\ notifications'[n.id] = n
                 /\ Len(alerts') = Len(AlertsAfterSweep(now)) + 1]_vars

\* C3: the update step that receives a Notify whose replaces_id is the id of a live
\* notification keeps alerts as it is (same length, the id at the same position) and
\* stores the new record under the id.
C3_ReplaceInPlace ==
    [][(/\ Receives("Notify")
        /\ Head(output).replaces_id \in DOMAIN notifications \ Due(now))
          => LET n == Head(output).notification
             IN  /\ alerts' = AlertsAfterSweep(now)
                 /\ n.id \in DOMAIN notifications'
                 /\ notifications'[n.id] = n]_vars

\* C4: a Notify whose non-zero replaces_id names no live notification is given that id,
\* and the update step that receives it creates the record under that id and appends
\* the id at the end of alerts.
C4_ReplaceAbsentCreates ==
    [][(/\ Receives("Notify")
        /\ Head(output).replaces_id # 0
        /\ Head(output).replaces_id \notin DOMAIN notifications)
          => LET n == Head(output).notification
             IN  /\ n.id = Head(output).replaces_id
                 /\ n.id \in DOMAIN notifications'
                 /\ notifications'[n.id] = n
                 /\ alerts' = Append(AlertsAfterSweep(now), n.id)]_vars

\* C5: every CloseNotification(id) call emits NotificationClosed(id, 3); when id is not
\* in the store, the update step that receives the message raises no error and changes
\* nothing in the store beyond its sweep.
C5_CloseAbsentIsHarmless ==
    [][/\ \A id \in Ids :
            close_notification(id)
                => bus' = Append(bus, [signal |-> "NotificationClosed", id |-> id, reason |-> 3])
       /\ (/\ UpdateDbus
           /\ Head(output).type = "CloseNotification"
           /\ Head(output).id \notin DOMAIN notifications \cup AlertIds)
             => /\ alive'
                /\ alerts' = AlertsAfterSweep(now)
                /\ notifications' = [i \in DOMAIN notifications \ Due(now) |-> notifications[i]]
      ]_vars

\* The store after the sweep of an update step at the current time.
SweepRemoves ==
    /\ notifications' = [i \in DOMAIN notifications \ Due(now) |-> notifications[i]]
    /\ alerts' = AlertsAfterSweep(now)

\* The step relayed Closed(id, Expired) for the ids that were due, and nothing else.
SweepReports ==
    /\ \A k \in 1..Len(Relayed) :
          Relayed[k].id \in Due(now) /\ Relayed[k] = NotificationClosed(Relayed[k].id, Expired)
    /\ \A id \in Due(now) : \E k \in 1..Len(Relayed) : Relayed[k].id = id

Touched ==
    {id \in DOMAIN notifications :
        id \notin DOMAIN notifications' \/ notifications'[id] # notifications[id]}

\* The id that the message of an update step is about.
Target ==
    IF UpdateDbus /\ Head(output).type = "Notify" THEN {Head(output).notification.id}
    ELSE IF UpdateDbus /\ Head(output).type = "CloseNotification" THEN {Head(output).id}
    ELSE IF UpdateUi THEN {message.id : message \in ui}
    ELSE {}

\* The ids that the sweep of an update step took out of the store.
Swept == {id \in Touched : id \notin Target \/ id \in Due(now)}

C8_CriticalNeverExpires ==
    [][/\ Notified =>
            \A expire_timeout \in Timeouts :
               notify(Last(output').replaces_id, {2}, expire_timeout)
                   => /\ Last(output').notification.urgency = Critical
                      /\ Last(output').notification.expire_time = {}
       /\ UpdateStep
             => \A id \in DOMAIN notifications :
                   notifications[id].urgency = Critical
                       => /\ \A k \in 1..Len(Relayed) :
                                Relayed[k] # NotificationClosed(id, Expired)
                          /\ id \notin Swept
                          /\ id \notin Target
                                => /\ id \in DOMAIN notifications'
                                   /\ notifications'[id] = notifications[id]
      ]_vars

\* A Critical notification is still stored after its default minute, when a sweep has
\* removed a notification of the same age.
C8_Witness ==
    /\ now > DefaultExpireMs
    /\ \E id \in DOMAIN notifications :
          /\ notifications[id].urgency = Critical
          /\ notifications[id].time = 0
    /\ \E k \in 1..Len(relay) : relay[k].reason = Expired

\* C9: a notification that is not Critical has no expire_time when expire_timeout is 0,
\* expires one minute after its creation time when expire_timeout is -1, and
\* expire_timeout milliseconds after it for every other expire_timeout >= 0.
C9_ExpireTime ==
    [][Notified =>
        \A hint \in UrgencyHints, expire_timeout \in Timeouts :
          notify(Last(output').replaces_id, hint, expire_timeout)
              => LET n == Last(output').notification
                 IN  /\ n.time = now
                     /\ n.urgency # Critical
                           => /\ expire_timeout = 0 => n.expire_time = {}
                              /\ expire_timeout = -1 => n.expire_time = {n.time + 60 * 1000}
                              /\ expire_timeout > 0 => n.expire_time = {n.time + expire_timeout}
      ]_vars

\* Two calls left a record that expires a minute after its creation and one that
\* expires a millisecond after its creation, neither of them Critical.
C9_Witness ==
    /\ \A id \in DOMAIN notifications : notifications[id].urgency # Critical
    /\ \E id \in DOMAIN notifications :
          notifications[id].expire_time = {notifications[id].time + DefaultExpireMs}
    /\ \E id \in DOMAIN notifications :
          notifications[id].expire_time = {notifications[id].time + 1}

\* update returns early, without looking at its message.
EarlyReturn == AlertsAfterSweep(now) = <<>> /\ window_id = "Some"

\* The step left id in neither the notification map nor alerts.
Gone(id) == id \notin DOMAIN notifications' /\ \A i \in 1..Len(alerts') : alerts'[i] # id

\* C10: the emitter sends reason code 1 for Expired, 2 for DismissedByUser and 3 for
\* ClosedByCloseNotification; the sweep relays Expired, a user dismissal DismissedByUser
\* and a CloseNotification message ClosedByCloseNotification; and each of the three
\* paths leaves the id it removes in neither the notification map nor alerts.
C10_ReasonByPath ==
    [][/\ Emit => Last(bus').reason = CASE Head(relay).reason = Expired -> 1
                                        [] Head(relay).reason = DismissedByUser -> 2
                                        [] Head(relay).reason = ClosedByCloseNotification -> 3
                                        [] OTHER -> 4
       /\ (UpdateTick /\ alive')
             => /\ \A k \in 1..Len(Relayed) : Relayed[k].reason = Expired
                /\ \A id \in Due(now) : Gone(id)
       /\ (Receives("CloseNotification") /\ ~EarlyReturn)
             => /\ signaller = "Initialized"
                      => Last(relay') = NotificationClosed(Head(output).id,
                                                           ClosedByCloseNotification)
                /\ Gone(Head(output).id)
       /\ (UpdateUi /\ alive' /\ ~EarlyReturn)
             => \A message \in ui :
                   /\ signaller = "Initialized"
                         => Last(relay') = NotificationClosed(message.id, DismissedByUser)
                   /\ Gone(message.id)
      ]_vars

\* The events for id that wait in the relay as ActionInvoked.
PendingActions(id) ==
    {k \in 1..Len(relay) : relay[k].signal = "ActionInvoked" /\ relay[k].id = id}

\* C11: for one id, no NotificationClosed signal of any reason is put on the bus while
\* an ActionInvoked event for that id, handed to the relay earlier, still waits there
\* (the only step that may do so is the emitter taking the relay's head, which is then
\* older than the waiting event); and while the emitter task runs, an ActionInvoked
\* event leaves the head of the relay only by being put on the bus.
C11_ActionBeforeClosed ==
    [][/\ (Len(bus') = Len(bus) + 1 /\ Last(bus').signal = "NotificationClosed")
             => (PendingActions(Last(bus').id) # {} => Emit)
       /\ (/\ relay # <<>>
           /\ Head(relay).signal = "ActionInvoked"
           /\ dbus_pc' = "emitting"
           /\ SubSeq(relay', 1, Len(relay)) # relay)
             => bus' = Append(bus, Head(relay))
      ]_vars

\* C12: every update step of the state owner runs to its end, whatever it hands to the
\* relay and whether the relay is full or its receiver is gone (try_send is the only
\* statement of update that can abort it, and it never waits).
C12_RelayNeverAborts ==
    [][(UpdateDbus \/ UpdateTick \/ UpdateUi) => alive']_vars

\* C13: a signal that the transport refuses ends the emitter task and nothing else: no
\* call is left without its reply, and once the emitter task has ended every update
\* step of the state owner still runs to its end.
C13_EmitFailureIsContained ==
    [][/\ iface' # "panicked"
       /\ (dbus_pc = "dead" /\ (UpdateDbus \/ UpdateTick \/ UpdateUi)) => alive'
      ]_vars

\* C14: get_next_id never returns an id that it returned before: the id a Notify call
\* with replaces_id = 0 returns is not among the ids returned so far (used_ids), it is
\* among them afterwards, and no step, removal and replacement included, takes an id
\* out of them.
C14_IdNeverReturnedAgain ==
    [][/\ used_ids \subseteq used_ids'
       /\ (Notified /\ Last(output').replaces_id = 0)
             => /\ Last(output').notification.id \notin used_ids
                /\ used_ids' = used_ids \cup {Last(output').notification.id}
      ]_vars

\* get_next_id has returned 1 and 2, and the notification that held 1 has expired and
\* has been removed: 1 stays among the used ids.
C14_Witness ==
    /\ used_ids = {1, 2}
    /\ 1 \notin DOMAIN notifications
    /\ relay = <<NotificationClosed(1, Expired)>>
    /\ output # <<>>
    /\ Last(output).type = "Notify"
    /\ Last(output).replaces_id = 0
    /\ Last(output).notification.id = 2

\* C15: a Notify call with any urgency hint returns its id, which is not zero, and the
\* notification it sends has urgency Normal for an absent hint, Low for 0, Normal for
\* 1, Critical for 2 and Normal for every level above 2.
C15_UrgencyOfHint ==
    [][calls' # calls
          => /\ iface' = "ready"
             /\ Len(output') = Len(output) + 1
             /\ Last(output').type = "Notify"
             /\ ret' = {Last(output').notification.id}
             /\ 0 \notin ret'
             /\ Last(output').notification.urgency =
                   CASE args'.urgency = {} -> "Normal"
                     [] args'.urgency = {0} -> "Low"
                     [] args'.urgency = {1} -> "Normal"
                     [] args'.urgency = {2} -> "Critical"
                     [] OTHER -> "Normal"
      ]_vars

\* A call with urgency level 3 has returned and its Normal notification is stored,
\* after a call with level 0 whose notification is Low.
C15_Witness ==
    /\ calls = 2
    /\ args.urgency = {3}
    /\ ret # {}
    /\ \E id \in ret : id \in DOMAIN notifications /\ notifications[id].urgency = Normal
    /\ \E id \in DOMAIN notifications : notifications[id].urgency = Low

\* C16: the stored actions are the pairs (actions[1], actions[2]), (actions[3],
\* actions[4]), ... of the call's action list, in order, without its last element when
\* the list has odd length; they are absent when the list holds no pair.
C16_ActionPairs ==
    \A r \in ret :
       LET pairs == Len(args.actions) \div 2
       IN  IF pairs = 0 THEN r.actions = {}
           ELSE r.actions =
                  {[i \in 1..pairs |-> <<args.actions[2 * i - 1], args.actions[2 * i]>>]}

\* A list of three different-looking elements was stored as its first pair alone.
C16_Witness ==
    \E r \in ret :
       /\ args.actions = <<"k", "l", "k">>
       /\ r.actions = {<<<<"k", "l">>>>}

\* What the k-th candidate of the stated order yields for the examined call.
Yields(k) ==
    Candidate(<<"image-data", "image-path", "app_icon", "icon_data">>[k],
              Hints(args.hints), args.app_icon)

\* C17: the icon is what the first candidate that yields one yields, in the order
\* image-data hint, image-path hint, lookup of app_icon, icon_data hint, and the default
\* icon when none does; a candidate is evaluated only when all the earlier ones yield
\* nothing.
C17_IconPrecedence ==
    \A r \in ret :
       LET order == <<"image-data", "image-path", "app_icon", "icon_data">>
           first == {k \in 1..Len(order) :
                        Yields(k) # {} /\ \A j \in 1..(k - 1) : Yields(j) = {}}
       IN  /\ first = {} => r.icon = [kind |-> "theme", name |-> "notifications"]
           /\ \A k \in first : r.icon \in Yields(k)
           /\ \A i \in 1..Len(r.consulted) :
                 \E k \in 1..Len(order) :
                    /\ order[k] = r.consulted[i]
                    /\ \A j \in 1..(k - 1) : Yields(j) = {}

\* The icon came from the icon_data hint: the image-data hint held a short buffer, no
\* image-path hint was given and app_icon was not found.
C17_Witness ==
    \E r \in ret :
       /\ "image-data" \in DOMAIN args.hints
       /\ "icon_data" \in DOMAIN args.hints
       /\ r.icon = [kind |-> "tmp", image |-> args.hints["icon_data"]]
       /\ r.consulted = <<"image-data", "image-path", "app_icon", "icon_data">>

\* The dictionary with the value of one key moved under another key.
Renamed(dict, old, new) ==
    [key \in (DOMAIN dict \ {old}) \cup {new} |-> IF key = new THEN dict[old] ELSE dict[key]]

\* C18: a call that carries the image under image_data and none under image-data gets
\* the icon of the same call with the image under image-data, and likewise for
\* image_path and image-path.
C18_LegacyKeysResolveAlike ==
    \A r \in ret :
       /\ ("image_data" \in DOMAIN args.hints /\ "image-data" \notin DOMAIN args.hints)
             => r.icon = IconOf(Renamed(args.hints, "image_data", "image-data"),
                                args.app_icon).icon
       /\ ("image_path" \in DOMAIN args.hints /\ "image-path" \notin DOMAIN args.hints)
             => r.icon = IconOf(Renamed(args.hints, "image_path", "image-path"),
                                args.app_icon).icon

\* The fallback of markup: one RichText block with one unstyled run of the whole text.
Fallback(text) == <<RichText(<<[style |-> Unstyled, text |-> text]>>)>>

\* C19: markup returns without panicking on every body, and when parse_markup fails it
\* returns one RichText block with one unstyled run whose text is the body unchanged.
C19_MarkupIsTotal ==
    \A r \in ret :
       /\ ~r.panicked
       /\ parse_markup(args.body).kind # "Ok" => r.body = Fallback(args.body)

\* C19 happens: markup has returned the fallback for an unclosed tag.
C19_Witness ==
    /\ args.body = <<"<", "b", ">">>
    /\ parse_markup(args.body).kind = "Err"
    /\ \E r \in ret : ~r.panicked /\ r.body = Fallback(args.body)

\* The style whose flags are those of the open tags.
StyleOf(open) ==
    [bold |-> \E k \in DOMAIN open : open[k] = "b",
     italic |-> \E k \in DOMAIN open : open[k] = "i",
     underline |-> \E k \in DOMAIN open : open[k] = "u"]

\* The longest prefix of the input without an angle bracket.
RECURSIVE TextPrefix(_)
TextPrefix(input) ==
    IF input = <<>> \/ Head(input) \in {"<", ">"} THEN <<>>
    ELSE <<Head(input)>> \o TextPrefix(Tail(input))

\* A reading of a body by its tags, one character position at a time: open is the stack
\* of the tags not yet closed, runs the text runs read so far, each with the flags of
\* the tags open around it.  The body is well formed when every tag is one of b, i and
\* u, every closing tag closes the innermost open tag, and no tag is left open.
RECURSIVE Scan(_, _, _)
Scan(input, open, runs) ==
    IF input = <<>> THEN [well_formed |-> open = <<>>, runs |-> runs]
    ELSE IF /\ Len(input) >= 3
            /\ input[1] = "<" /\ input[2] \in FormatTags /\ input[3] = ">"
    THEN Scan(Drop(input, 3), Append(open, input[2]), runs)
    ELSE IF /\ Len(input) >= 4
            /\ input[1] = "<" /\ input[2] = "/" /\ input[3] \in FormatTags /\ input[4] = ">"
    THEN IF open # <<>> /\ Last(open) = input[3]
         THEN Scan(Drop(input, 4), SubSeq(open, 1, Len(open) - 1), runs)
         ELSE [well_formed |-> FALSE, runs |-> runs]
    ELSE IF Head(input) \in {"<", ">"} THEN [well_formed |-> FALSE, runs |-> runs]
    ELSE Scan(Drop(input, Len(TextPrefix(input))), open,
              Append(runs, [style |-> StyleOf(open), text |-> TextPrefix(input)]))

\* C20: on a well-formed body of b, i and u tags parse_markup succeeds, and the runs
\* markup returns are the text runs of the body in order, each with exactly the flags of
\* the tags that enclose it.
C20_StylesFollowNesting ==
    \A r \in ret :
       Scan(args.body, <<>>, <<>>).well_formed
          => /\ parse_markup(args.body).kind = "Ok"
             /\ r.body = IF Scan(args.body, <<>>, <<>>).runs = <<>> THEN <<>>
                          ELSE <<RichText(Scan(args.body, <<>>, <<>>).runs)>>

\* C21: for a non-empty body without "<", markup returns exactly one RichText block that
\* holds one run, with bold, italic and underline false and the body as its text.
C21_PlainText ==
    \A r \in ret :
       (args.body # <<>> /\ \A k \in DOMAIN args.body : args.body[k] # "<")
          => /\ ~r.panicked
             /\ r.body = <<[block |-> "RichText",
                            spans |-> <<[style |-> [bold |-> FALSE, italic |-> FALSE,
                                                   underline |-> FALSE],
                                        text |-> args.body]>>]>>

\* C21 happens: markup has returned on a plain body.
C21_Witness ==
    /\ args.body = <<"x", ">", "b">>
    /\ \E r \in ret : Len(r.body) = 1 /\ r.body[1].spans[1].text = args.body

\* The body is inner enclosed in the opening and closing markers of a tag of OtherTags.
Enclosed(body, inner) ==
    \E name \in OtherTags : body = <<"<", name, ">">> \o inner \o <<"<", "/", name, ">">>

\* What is between the first three and the last four characters of the body.
Inner(body) == SubSeq(body, 4, Len(body) - 4)

\* C22: a body that is one tag with a name that starts with none of b, i, u parses, for
\* every inner content, to a single Text node that holds the inner content verbatim,
\* and markup returns it as one unstyled run.
C22_UnknownTagKeepsContent ==
    \A r \in ret :
       (Len(args.body) >= 7 /\ Enclosed(args.body, Inner(args.body)))
          => /\ parse_markup(args.body)
                   = Ok(<<>>, <<[tag |-> "Text", text |-> Inner(args.body)]>>)
             /\ r.body = <<RichText(<<[style |-> Unstyled, text |-> Inner(args.body)]>>)>>

\* C25: the stored body is never present but empty: it is absent when the body argument
\* is empty or markup yields no element for it, and holds at least one element otherwise.
C25_BodyNeverEmpty ==
    \A r \in ret :
       /\ \A body \in r.stored : body # <<>>
       /\ r.stored = {} <=> (args.body = <<>> \/ r.body = <<>>)

\* C23: a body whose image tag has src and alt attributes gives one Image element with
\* that src and alt, whichever attribute comes first, and the text before it and the
\* text after it lie in separate RichText blocks.
C23_ImageElement ==
    \A r \in ret :
       /\ parse_markup(ImageBody(<<>>, args.src, args.alt, args.order, <<>>))
             = Ok(<<>>, <<[tag |-> "Image", src |-> args.src, alt |-> args.alt]>>)
       /\ r.body = (IF args.before = <<>> THEN <<>> ELSE Fallback(args.before))
                      \o <<[block |-> "Image", src |-> args.src, alt |-> args.alt]>>
                      \o (IF args.after = <<>> THEN <<>> ELSE Fallback(args.after))

\* The styles.
Styles == [bold : BOOLEAN, italic : BOOLEAN, underline : BOOLEAN]

\* C24: a hyperlink tag with an href whose inner content parses gives one Hyperlink
\* node with the parse of the inner content as children; flattened under any style it
\* gives what the inner content gives under that style, and markup returns for the
\* body what it returns for the body with the inner content in place of the hyperlink.
C24_HyperlinkIsTransparent ==
    \A r \in ret :
       parse_markup(args.inner).kind = "Ok"
          => /\ parse_markup(HyperlinkTag(args.href, args.inner))
                   = Ok(<<>>, <<[tag |-> "Hyperlink", href |-> args.href,
                                children |-> parse_markup(args.inner).out]>>)
             /\ \A style \in Styles :
                   flatten_traverser(parse_markup(HyperlinkTag(args.href, args.inner)).out,
                                     style)
                      = flatten_traverser(parse_markup(args.inner).out, style)
             /\ r.body = markup(Enclose(args.name, args.inner)).body

\* C26: in every state of the state owner every id in alerts has an entry in the
\* notification map.
C26_AlertsAreStored ==
    alive => \A i \in DOMAIN alerts : alerts[i] \in DOMAIN notifications

\* C27: in every state of the state owner every id of the notification map occurs in
\* alerts exactly once.
C27_StoredAreAlertedOnce ==
    alive => \A id \in DOMAIN notifications :
                Cardinality({i \in DOMAIN alerts : alerts[i] = id}) = 1

\* The step is remove_notification(id) on the store as it stands: an update step that
\* runs to its end on a CloseNotification(id) or a user dismissal of id, with nothing to
\* sweep and no early return.
Removes(id) ==
    /\ alive'
    /\ Due(now) = {}
    /\ ~EarlyReturn
    /\ \/ UpdateDbus /\ Head(output).type = "CloseNotification" /\ Head(output).id = id
       \/ UpdateUi /\ \E message \in ui : message.type = "UserDismissed" /\ message.id = id

\* C28: remove_notification(id) leaves id in neither the notification map nor alerts,
\* leaves every other record and the order of the other ids as they were, and changes
\* nothing when id is in neither.
C28_RemoveNotificationFrame ==
    [][\A id \in Ids :
          Removes(id)
             => /\ id \notin DOMAIN notifications'
                /\ \A i \in DOMAIN alerts' : alerts'[i] # id
                /\ notifications' = [i \in DOMAIN notifications \ {id} |-> notifications[i]]
                /\ alerts' = SelectSeq(alerts, LAMBDA other : other # id)
                /\ (id \notin DOMAIN notifications \cup AlertIds)
                      => notifications' = notifications /\ alerts' = alerts]_vars

\* C29: from the fresh registry the calls of get_next_id return 1, 2, ... in that
\* order: the call that finds k ids used returns k + 1; get_next_id never returns 0 and
\* never an id that was in used_ids when it was called.
C29_AllocatesInOrder ==
    [][get_next_id_returns
          => /\ ret' = {Cardinality(used_ids) + 1}
             /\ 0 \notin ret'
             /\ ret' \cap used_ids = {}
             /\ used_ids' = 1..(Cardinality(used_ids) + 1)]_vars

\* C29 happens: the second call has returned 2 after the first returned 1.
C29_Witness ==
    /\ ret = {2}
    /\ used_ids = {1, 2}
    /\ iface = "ready"

\* C30: the iteration of get_next_id that finds the maximum id in use continues at 1,
\* every other iteration at the next id above; the candidate is never 0 and never
\* above the maximum, and the loop goes on from there.
C30_WrapsToOne ==
    [][get_next_id_loop
          => /\ next_id = IdMax => next_id' = 1
             /\ next_id # IdMax => next_id' = next_id + 1
             /\ next_id' \in 1..IdMax
             /\ iface' = "get_next_id"]_vars

\* C30 happens: the loop has passed the maximum id, which is in use, and is at 1.
C30_Witness ==
    /\ iface = "get_next_id"
    /\ IdMax \in used_ids
    /\ next_id = 1
    /\ ret = {}
    /\ args.replaces_id = 0
    /\ Cardinality(used_ids) = IdMax

\* The signal on the bus is the one the emitter task sends for the event.
SignalOf(event, sent) ==
    /\ sent.signal = event.signal
    /\ sent.id = event.id
    /\ event.signal = "ActionInvoked" => sent.key = event.key
    /\ event.signal = "NotificationClosed"
          => sent.reason = CASE event.reason = Expired -> 1
                             [] event.reason = DismissedByUser -> 2
                             [] event.reason = ClosedByCloseNotification -> 3
                             [] OTHER -> 4

RECURSIVE UnitsOf(_)
UnitsOf(blocks) ==
    IF blocks = <<>> THEN <<>>
    ELSE (IF Head(blocks).block = "RichText"
          THEN [k \in DOMAIN Head(blocks).spans |->
                   [unit |-> "Span", style |-> Head(blocks).spans[k].style,
                    text |-> Head(blocks).spans[k].text]]
          ELSE <<[unit |-> "Image", src |-> Head(blocks).src, alt |-> Head(blocks).alt]>>)
         \o UnitsOf(Tail(blocks))

\* C32: what group returns has no two adjacent RichText blocks and no RichText block
\* without runs, and holds the units it was given, in their order.
C32_GroupedBlocks ==
    \A r \in ret :
       /\ \A k \in 1..(Len(r.grouped) - 1) :
             ~(r.grouped[k].block = "RichText" /\ r.grouped[k + 1].block = "RichText")
       /\ \A k \in DOMAIN r.grouped :
             r.grouped[k].block = "RichText" => r.grouped[k].spans # <<>>
       /\ UnitsOf(r.grouped) = args.elements

\* C32 happens: group has returned on runs, two images in a row, and a run.
C32_Witness ==
    /\ Len(args.elements) = 4
    /\ args.elements[1].unit = "Span"
    /\ args.elements[2].unit = "Image"
    /\ args.elements[3].unit = "Image"
    /\ args.elements[4].unit = "Span"
    /\ \E r \in ret : Len(r.grouped) = 4

\* C33: in the legacy server alerts holds no id twice and holds exactly the keys of
\* the notifications map, and add_notification leaves alerts alone for an id it
\* holds and appends the id otherwise.
C33_LegacyAlerts ==
    [][/\ \A i, j \in DOMAIN alerts' : alerts'[i] = alerts'[j] => i = j
       /\ {alerts'[i] : i \in DOMAIN alerts'} = DOMAIN notifications'
       /\ args'.call = "add_notification"
             => /\ args'.id \in AlertIds => alerts' = alerts
                /\ args'.id \notin AlertIds => alerts' = Append(alerts, args'.id)]_vars

\* C33 happens: id 1 was added again while it stood before id 2 in alerts.
C33_Witness ==
    /\ args.call = "add_notification"
    /\ args.id = 1
    /\ alerts = <<1, 2>>
    /\ notifications[1].urgency = Critical
    /\ notifications[2].urgency = Normal

\* C34: a CloseNotification(id) call puts exactly one NotificationClosed(id, 3) on the
\* bus: the handler's step appends one, and no other step appends a NotificationClosed
\* with reason 3.
C34_OneClosedPerCall ==
    [][/\ \A id \in Ids :
             close_notification(id)
                => bus' = Append(bus, [signal |-> "NotificationClosed", id |-> id,
                                       reason |-> 3])
       /\ (/\ Len(bus') = Len(bus) + 1
           /\ Last(bus').signal = "NotificationClosed"
           /\ Last(bus').reason = 3)
             => close_notification(Last(bus').id)]_vars

\* How many times the sweep of the next update step hands a Closed event for id to
\* the relay: once for every occurrence of id among the ids it collects.
SweepHandsOver(id) ==
    Cardinality({i \in DOMAIN ExpiredIds(Owner, now) : ExpiredIds(Owner, now)[i] = id})

\* How many Closed events for id an update step appended to the relay.
ClosedRelayed(id) ==
    Cardinality({i \in DOMAIN Relayed :
                    Relayed[i].signal = "NotificationClosed" /\ Relayed[i].id = id})

\* C35: in a live period of an id the state owner hands at most one Closed event for
\* it to the relay: the sweep of an update step hands over at most one for a stored id,
\* and a step that handed one over has ended the period (the id is out of the store,
\* or the same step stored a new notification under it).
C35_OneClosedPerLivePeriod ==
    [][((UpdateDbus \/ UpdateTick \/ UpdateUi) /\ signaller = "Initialized")
          => \A id \in DOMAIN notifications :
                /\ SweepHandsOver(id) <= 1
                /\ (alive' /\ ClosedRelayed(id) >= 1)
                      => \/ id \notin DOMAIN notifications'
                         \/ /\ Receives("Notify")
                            /\ Head(output).notification.id = id]_vars

\* C36: the update step that receives Initialized leaves the signaller Initialized,
\* whatever was received or has expired before, and no step takes an Initialized
\* signaller back to Uninitialized.
C36_SignallerInitialized ==
    [][/\ Receives("Initialized") => signaller' = "Initialized"
       /\ signaller = "Initialized" => signaller' = "Initialized"]_vars

\* C37: get_next_id terminates whenever some id is not held by a live notification:
\* a call that runs while the store holds fewer than IdMax notifications, with no
\* message on its way to the store, returns.
C37_GetNextIdTerminates ==
    (iface = "get_next_id" /\ output = <<>> /\ DOMAIN notifications # Ids)
        ~> (iface = "ready")

C39_ExpiresAfterCreation ==
    \A n \in ret : \A expire_time \in n.expire_time : expire_time >= n.time

====
